---- MODULE Spec2Model ----
(***************************************************************************)
(* Model of doc_analyzer_mcp_server/src/main.py: the report readers, the   *)
(* summary extractor, the two severity tallies and the two mail senders.   *)
(*                                                                         *)
(* A Python str is a sequence of one-character strings, so that lower(),   *)
(* strip(), startswith(), "in" and join() are computed character by        *)
(* character.  A Python dict is the sequence of its [k, v] items in        *)
(* insertion order.                                                        *)
(***************************************************************************)
EXTENDS Integers, Sequences, FiniteSets, TLC

\* ------------------------------------------------------------------ bounds
\* Largest number of paragraphs of a document the readers, the extractor and
\* the tallies are run on.
MaxParas == 4
\* Largest number of paragraphs of a document when the mail senders run too.
MaxMailParas == 2

\* --------------------------------------------------------- string literals
ExecutiveSummary == <<"E","x","e","c","u","t","i","v","e"," ","S","u","m","m","a","r","y">>
SummaryOfFindings == <<"S","u","m","m","a","r","y"," ","o","f"," ","F","i","n","d","i","n","g","s">>
Conclusion == <<"C","o","n","c","l","u","s","i","o","n">>
Summary == <<"S","u","m","m","a","r","y">>
Critical == <<"C","r","i","t","i","c","a","l">>
Medium == <<"M","e","d","i","u","m">>
Low == <<"L","o","w">>
Informational == <<"I","n","f","o","r","m","a","t","i","o","n","a","l">>
High == <<"H","i","g","h">>
HeadingPrefix == <<"H","e","a","d","i","n","g">>
NoSummaryMarker == <<"N","o"," ","s","u","m","m","a","r","y"," ","s","e","c","t","i","o","n"," ","f","o","u","n","d","."," ","P","r","e","v","i","e","w",":","\n">>
NotFoundHead == <<"R","e","p","o","r","t"," ","f","i","l","e"," ","'">>
NotFoundTail == <<"'"," ","n","o","t"," ","f","o","u","n","d"," ","i","n"," ","r","e","p","o","r","t","s"," ","d","i","r","e","c","t","o","r","y",".">>
ErrorPrefix == <<"A","n"," ","e","r","r","o","r"," ","o","c","c","u","r","r","e","d",":"," ">>
RejectMsg == <<"S","M","T","P"," ","u","s","e","r","n","a","m","e"," ","a","n","d"," ","p","a","s","s","w","o","r","d"," ","m","u","s","t"," ","b","e"," ","p","r","o","v","i","d","e","d",".">>
SentHead == <<"E","m","a","i","l"," ","s","e","n","t"," ","t","o"," ">>
SentTail == <<" ","s","u","c","c","e","s","s","f","u","l","l","y",".">>
FailPrefix == <<"F","a","i","l","e","d"," ","t","o"," ","s","e","n","d"," ","e","m","a","i","l",":"," ">>
TotalLabel == <<"T","o","t","a","l"," ","D","e","f","e","c","t","s",":"," ">>
SummaryLabel == <<"R","e","p","o","r","t"," ","S","u","m","m","a","r","y",":","\n">>
InsightsLabel == <<"\n","\n","I","n","s","i","g","h","t","s",":","\n">>
SubjectPrefix == <<"P","e","n","e","t","r","a","t","i","o","n"," ","T","e","s","t"," ","R","e","p","o","r","t"," ","S","u","m","m","a","r","y",":"," ">>
ColonSpace == <<":"," ">>
NL == <<"\n">>

\* ------------------------------------------------------- str primitives
\* str.lower() on the ASCII letters.
UpperToLower ==
  [c \in {"A","B","C","D","E","F","G","H","I","J","K","L","M","N","O","P","Q",
          "R","S","T","U","V","W","X","Y","Z"} |->
     CASE c = "A" -> "a" [] c = "B" -> "b" [] c = "C" -> "c" [] c = "D" -> "d"
       [] c = "E" -> "e" [] c = "F" -> "f" [] c = "G" -> "g" [] c = "H" -> "h"
       [] c = "I" -> "i" [] c = "J" -> "j" [] c = "K" -> "k" [] c = "L" -> "l"
       [] c = "M" -> "m" [] c = "N" -> "n" [] c = "O" -> "o" [] c = "P" -> "p"
       [] c = "Q" -> "q" [] c = "R" -> "r" [] c = "S" -> "s" [] c = "T" -> "t"
       [] c = "U" -> "u" [] c = "V" -> "v" [] c = "W" -> "w" [] c = "X" -> "x"
       [] c = "Y" -> "y" [] c = "Z" -> "z"]

lower(s) ==
  [i \in 1..Len(s) |-> IF s[i] \in DOMAIN UpperToLower THEN UpperToLower[s[i]] ELSE s[i]]

\* The characters str.strip() removes.
Whitespace == {" ", "\t", "\n", "\r"}

RECURSIVE lstrip(_)
lstrip(s) ==
  IF s # <<>> /\ Head(s) \in Whitespace THEN lstrip(Tail(s)) ELSE s

RECURSIVE rstrip(_)
rstrip(s) ==
  IF s # <<>> /\ s[Len(s)] \in Whitespace THEN rstrip(SubSeq(s, 1, Len(s) - 1)) ELSE s

strip(s) == rstrip(lstrip(s))

\* sub in s
contains(sub, s) ==
  \E k \in 0..(Len(s) - Len(sub)) : \A i \in 1..Len(sub) : s[k + i] = sub[i]

startswith(s, prefix) ==
  Len(prefix) <= Len(s) /\ \A i \in 1..Len(prefix) : s[i] = prefix[i]

\* sep.join(parts)
RECURSIVE join(_, _)
join(sep, parts) ==
  IF parts = <<>> THEN <<>>
  ELSE IF Len(parts) = 1 THEN parts[1]
  ELSE parts[1] \o sep \o join(sep, Tail(parts))

Digit == <<"0","1","2","3","4","5","6","7","8","9">>

\* str(n) of a non-negative int, as an f-string formats it.
RECURSIVE str(_)
str(n) ==
  IF n < 10 THEN <<Digit[n + 1]>> ELSE str(n \div 10) \o <<Digit[(n % 10) + 1]>>

\* --------------------------------------------------------------- inputs
StyleHeading1 == <<"H","e","a","d","i","n","g"," ","1">>
StyleHeading2 == <<"H","e","a","d","i","n","g"," ","2">>
StyleNormal == <<"N","o","r","m","a","l">>
TextNext == <<"N","e","x","t",":"," ","H","i","g","h">>
TextCrit == <<"C","r","i","t","i","c","a","l"," ","C","R","I","T","I","C","A","L">>
TextBelow == <<"B","e","l","o","w"," ","m","e","d","i","u","m">>
TextBlank == <<" ","\n">>
TextBody == <<"S","U","M","M","A","R","Y",":"," ","I","n","f","o","r","m","a","t","i","o","n","a","l">>

\* The paragraphs documents are built from: a heading that names a summary
\* section, a heading that does not, body text that mentions tiers (twice, in
\* another case, inside another word), a blank paragraph, and body text that
\* mentions a summary section.
ParaPool ==
  { [text |-> ExecutiveSummary, style |-> StyleHeading1],
    [text |-> TextNext,         style |-> StyleHeading2],
    [text |-> TextCrit,         style |-> StyleNormal],
    [text |-> TextBelow,        style |-> StyleNormal],
    [text |-> TextBlank,        style |-> StyleNormal],
    [text |-> TextBody,         style |-> StyleNormal] }

Docs(max) == UNION { [1..n -> ParaPool] : n \in 0..max }

\* The reports directory holds the named file as a readable document, holds
\* it as a file that is no document, or does not hold it.
FileStates(max) ==
  { [kind |-> "docx", paragraphs |-> d] : d \in Docs(max) }
    \cup { [kind |-> "corrupt", paragraphs |-> <<>>],
           [kind |-> "missing", paragraphs |-> <<>>] }

ReportName == <<"r">>
NoneValue == <<"<None>">>
Recipients == { <<"a","@","b">>, <<"a","\n","b">> }
Users == { <<>>, <<"u">> }
Passwords == { <<>>, <<"p">> }
CustomMessages == { NoneValue, <<"h","i">> }
Subjects == { <<"s">> }
Bodies == { <<"b">> }
\* Which transport call fails: 0 for none, k for the k-th.
FailPoints == 0..4

\* What the collaborators say when they fail.
DecodeMsg == <<"n","o"," ","d","o","c","x">>
TransportMsg == <<"s","m","t","p">>
RawBytes == <<"P","K">>

\* ----------------------------------------------------- paragraph source
get_report_path(f) ==
  IF f.kind = "missing"
  THEN [exc |-> "FileNotFoundError", msg |-> NotFoundHead \o ReportName \o NotFoundTail]
  ELSE [exc |-> "none", msg |-> <<>>]

Document(f) ==
  IF f.kind = "corrupt"
  THEN [exc |-> "Exception", msg |-> DecodeMsg, paragraphs |-> <<>>]
  ELSE [exc |-> "none", msg |-> <<>>, paragraphs |-> f.paragraphs]

\* file_path = get_report_path(filename); doc = docx.Document(file_path)
load(f) ==
  LET file_path == get_report_path(f)
  IN  IF file_path.exc # "none"
      THEN [exc |-> file_path.exc, msg |-> file_path.msg, paragraphs |-> <<>>]
      ELSE Document(f)

\* ----------------------------------------------------- summary extractor
summary_sections == <<ExecutiveSummary, SummaryOfFindings, Conclusion, Summary>>

\* Variant: the test without lower(), case-sensitive.
matches_section_cs(text) ==
  \E k \in 1..Len(summary_sections) : contains(summary_sections[k], text)

\* any(section.lower() in para.text.lower() for section in summary_sections)
matches_section(text) ==
  \E k \in 1..Len(summary_sections) :
    contains(lower(summary_sections[k]), lower(text))

\* Variant: the loop without its break.
is_section_end_never(para, summary_paragraphs) == FALSE

\* para.style.name.startswith('Heading') and summary_paragraphs
is_section_end(para, summary_paragraphs) ==
  startswith(para.style, HeadingPrefix) /\ summary_paragraphs # <<>>

\* The for loop from paragraph i on.  summary_paragraphs holds, with each
\* appended text, the position it came from; brk is the position of the
\* paragraph the loop broke at, 0 when it ran to the end.
RECURSIVE scan(_, _, _, _)
scan(paragraphs, i, is_capturing, summary_paragraphs) ==
  IF i > Len(paragraphs)
  THEN [summary_paragraphs |-> summary_paragraphs, brk |-> 0]
  ELSE IF matches_section(paragraphs[i].text)
  THEN scan(paragraphs, i + 1, TRUE, summary_paragraphs)
  ELSE IF is_capturing
  THEN IF is_section_end(paragraphs[i], summary_paragraphs)
       THEN [summary_paragraphs |-> summary_paragraphs, brk |-> i]
       ELSE IF strip(paragraphs[i].text) # <<>>
       THEN scan(paragraphs, i + 1, is_capturing,
                 Append(summary_paragraphs, [pos |-> i, text |-> paragraphs[i].text]))
       ELSE scan(paragraphs, i + 1, is_capturing, summary_paragraphs)
  ELSE scan(paragraphs, i + 1, is_capturing, summary_paragraphs)

texts(items) == [k \in 1..Len(items) |-> items[k].text]

PreviewLimit == 3

nonblank(p) == strip(p.text) # <<>>

\* Variant: the preview without the "if p.text.strip()" filter.
preview_unfiltered(paragraphs) ==
  SubSeq(texts(paragraphs), 1,
         IF Len(paragraphs) < PreviewLimit THEN Len(paragraphs) ELSE PreviewLimit)

\* [p.text for p in doc.paragraphs if p.text.strip()][:3]
preview(paragraphs) ==
  LET kept == texts(SelectSeq(paragraphs, nonblank))
  IN  SubSeq(kept, 1, IF Len(kept) < PreviewLimit THEN Len(kept) ELSE PreviewLimit)

\* The tool's result: exc is the exception that escapes it ("none" when it
\* returns), ret the string returned.
produce_report_summary(f) ==
  LET doc == load(f)
      s   == scan(doc.paragraphs, 1, FALSE, <<>>)
  IN  IF doc.exc = "FileNotFoundError"
      THEN [exc |-> "none", ret |-> doc.msg, captured |-> <<>>, brk |-> 0, fallback |-> FALSE]
      ELSE IF doc.exc # "none"
      THEN [exc |-> "none", ret |-> ErrorPrefix \o doc.msg, captured |-> <<>>, brk |-> 0,
            fallback |-> FALSE]
      ELSE IF s.summary_paragraphs # <<>>
      THEN [exc |-> "none", ret |-> join(NL, texts(s.summary_paragraphs)),
            captured |-> s.summary_paragraphs, brk |-> s.brk, fallback |-> FALSE]
      ELSE [exc |-> "none", ret |-> NoSummaryMarker \o join(NL, preview(doc.paragraphs)),
            captured |-> <<>>, brk |-> s.brk, fallback |-> TRUE]

\* -------------------------------------------------------- severity tally
severities == <<Critical, Medium, Low, Informational>>
severities3 == <<Critical, High, Medium>>

\* {s: 0 for s in severities}
zero_counts(sevs) == [n \in 1..Len(sevs) |-> [k |-> sevs[n], v |-> 0]]

\* Variant: the test without lower(), case-sensitive.
matches_tier_cs(sev, text) == contains(sev, text)

\* sev.lower() in para.text.lower()
matches_tier(sev, text) == contains(lower(sev), lower(text))

\* Variant: counts[sev.lower()] += 1, which on a Counter adds the key.
incr_lowered(counts, sev) ==
  IF \E n \in 1..Len(counts) : counts[n].k = lower(sev)
  THEN [n \in 1..Len(counts) |->
          IF counts[n].k = lower(sev) THEN [counts[n] EXCEPT !.v = @ + 1] ELSE counts[n]]
  ELSE Append(counts, [k |-> lower(sev), v |-> 1])

\* counts[sev] += 1, on a dict or Counter that holds sev
incr(counts, sev) ==
  [n \in 1..Len(counts) |->
     IF counts[n].k = sev THEN [counts[n] EXCEPT !.v = @ + 1] ELSE counts[n]]

\* Variant: the hit without "total += 1".
hit_no_total(st, sev) == [total |-> st.total, counts |-> incr(st.counts, sev)]

\* severity_counts[sev] += 1; total += 1
hit(st, sev) == [total |-> st.total + 1, counts |-> incr(st.counts, sev)]

\* for sev in severities, from the j-th on, in extract_defect_insights
RECURSIVE insights_sevs(_, _, _)
insights_sevs(text, j, st) ==
  IF j > Len(severities) THEN st
  ELSE insights_sevs(text, j + 1,
                     IF matches_tier(severities[j], text) THEN hit(st, severities[j]) ELSE st)

\* for para in doc.paragraphs, from the i-th on, in extract_defect_insights
RECURSIVE insights_paras(_, _, _)
insights_paras(paragraphs, i, st) ==
  IF i > Len(paragraphs) THEN st
  ELSE insights_paras(paragraphs, i + 1, insights_sevs(paragraphs[i].text, 1, st))

\* Variant: the handler re-raises.
insights_failure_reraise ==
  [exc |-> "Exception", total |-> 0, counts |-> <<>>]

\* except Exception: return 0, {s: 0 for s in [...]}
insights_failure ==
  [exc |-> "none", total |-> 0,
   counts |-> zero_counts(<<Critical, Medium, Low, Informational>>)]

extract_defect_insights(f) ==
  LET doc == load(f)
      st  == insights_paras(doc.paragraphs, 1,
                            [total |-> 0, counts |-> zero_counts(severities)])
  IN  IF doc.exc # "none" THEN insights_failure
      ELSE [exc |-> "none", total |-> st.total, counts |-> st.counts]

\* for sev in severities, from the j-th on, in extract_high_critical_medium_counts
RECURSIVE hcm_sevs(_, _, _)
hcm_sevs(text, j, counts) ==
  IF j > Len(severities3) THEN counts
  ELSE hcm_sevs(text, j + 1,
                IF matches_tier(severities3[j], text) THEN incr(counts, severities3[j])
                ELSE counts)

\* for para in doc.paragraphs, from the i-th on
RECURSIVE hcm_paras(_, _, _)
hcm_paras(paragraphs, i, counts) ==
  IF i > Len(paragraphs) THEN counts
  ELSE hcm_paras(paragraphs, i + 1, hcm_sevs(paragraphs[i].text, 1, counts))

\* except Exception: return {s: 0 for s in ["Critical", "High", "Medium"]}
hcm_failure == [exc |-> "none", counts |-> zero_counts(<<Critical, High, Medium>>)]

extract_high_critical_medium_counts(f) ==
  LET doc == load(f)
  IN  IF doc.exc # "none" THEN hcm_failure
      ELSE [exc |-> "none",
            counts |-> hcm_paras(doc.paragraphs, 1, zero_counts(severities3))]

\* --------------------------------------------------------------- readers
\* open(file_path, 'r').read(): the bytes of the file decode as text or do not.
read_text_report(f, decodes) ==
  IF get_report_path(f).exc # "none" THEN [exc |-> "none", ret |-> get_report_path(f).msg]
  ELSE IF decodes THEN [exc |-> "none", ret |-> RawBytes]
  ELSE [exc |-> "none", ret |-> ErrorPrefix \o DecodeMsg]

read_docx_report(f) ==
  LET doc == load(f)
  IN  IF doc.exc = "FileNotFoundError" THEN [exc |-> "none", ret |-> doc.msg]
      ELSE IF doc.exc # "none" THEN [exc |-> "none", ret |-> ErrorPrefix \o doc.msg]
      ELSE [exc |-> "none", ret |-> join(NL, texts(doc.paragraphs))]

\* ------------------------------------------------------------- notifier
\* Variant: "and" for "or".
credentials_missing_both(smtp_user, smtp_password) ==
  smtp_user = <<>> /\ smtp_password = <<>>

\* not smtp_user or not smtp_password
credentials_missing(smtp_user, smtp_password) ==
  smtp_user = <<>> \/ smtp_password = <<>>

\* EmailMessage refuses a header value that holds a line break (ValueError).
header_ok(value) == \A i \in 1..Len(value) : value[i] \notin {"\n", "\r"}

\* msg.set_content(body): the payload ends with a line break.
set_content(body) ==
  IF body # <<>> /\ body[Len(body)] = "\n" THEN body ELSE body \o NL

\* msg = EmailMessage(); msg["Subject"] = ...; msg["From"] = ...;
\* msg["To"] = ...; msg.set_content(body)
EmailMessage(subject, from, to, body) ==
  IF header_ok(subject) /\ header_ok(from) /\ header_ok(to)
  THEN [exc |-> "none",
        msg |-> [Subject |-> subject, From |-> from, To |-> to, content |-> set_content(body)]]
  ELSE [exc |-> "ValueError", msg |-> <<>>]

TransportCalls == <<"connect", "starttls", "login", "send_message">>

\* with smtplib.SMTP(...) as server: starttls(); login(); send_message(msg)
smtp_session(failAt) ==
  IF failAt = 0
  THEN [exc |-> "none", msg |-> <<>>, calls |-> TransportCalls]
  ELSE [exc |-> "Exception", msg |-> TransportMsg, calls |-> SubSeq(TransportCalls, 1, failAt)]

\* f"{k}: {v}" for k, v in severity_counts.items()
count_lines(severity_counts) ==
  [n \in 1..Len(severity_counts) |->
     severity_counts[n].k \o ColonSpace \o str(severity_counts[n].v)]

\* The body of the report mail.
compose(summary, total, severity_counts, custom_message) ==
  LET insights == TotalLabel \o str(total) \o NL \o join(NL, count_lines(severity_counts))
      body     == SummaryLabel \o summary \o InsightsLabel \o insights
      custom   == IF custom_message = NoneValue THEN <<>> ELSE custom_message
  IN  IF custom # <<>> THEN custom \o NL \o NL \o body ELSE body

Result0 ==
  [exc |-> "none", ret |-> <<>>, total |-> 0, counts |-> <<>>, captured |-> <<>>,
   brk |-> 0, fallback |-> FALSE, summary |-> <<>>, body |-> <<>>, calls |-> <<>>,
   transport |-> "none", sent |-> <<>>]

\* Lines 219-231 of sendmail, lines 178-190 of send_report_summary_email:
\* build the message, then the session inside try/except.
deliver(subject, smtp_user, recipient, body, failAt) ==
  LET m == EmailMessage(subject, smtp_user, recipient, body)
      t == smtp_session(failAt)
  IN  IF m.exc # "none" THEN [Result0 EXCEPT !.exc = m.exc, !.body = body]
      ELSE IF t.exc # "none"
      THEN [Result0 EXCEPT !.ret = FailPrefix \o t.msg, !.calls = t.calls, !.body = body,
                           !.transport = "failed"]
      ELSE [Result0 EXCEPT !.ret = SentHead \o recipient \o SentTail, !.calls = t.calls,
                           !.body = body, !.transport = "ok", !.sent = <<m.msg>>]

send_report_summary_email(f, recipient, smtp_user, smtp_password, custom_message, failAt) ==
  LET s    == produce_report_summary(f)
      ins  == extract_defect_insights(f)
      hcm  == extract_high_critical_medium_counts(f)
      body == compose(s.ret, ins.total, ins.counts, custom_message)
      d    == deliver(SubjectPrefix \o ReportName, smtp_user, recipient, body, failAt)
  IN  IF credentials_missing(smtp_user, smtp_password)
      THEN [Result0 EXCEPT !.ret = RejectMsg]
      ELSE IF s.exc # "none" THEN [Result0 EXCEPT !.exc = s.exc]
      ELSE IF ins.exc # "none" THEN [Result0 EXCEPT !.exc = ins.exc]
      ELSE IF hcm.exc # "none" THEN [Result0 EXCEPT !.exc = hcm.exc]
      ELSE [d EXCEPT !.summary = s.ret, !.total = ins.total, !.counts = ins.counts]

sendmail(recipient, subject, body, smtp_user, smtp_password, failAt) ==
  IF credentials_missing(smtp_user, smtp_password)
  THEN [Result0 EXCEPT !.ret = RejectMsg]
  ELSE deliver(subject, smtp_user, recipient, body, failAt)

\* ------------------------------------------------------- state machine
VARIABLES
  fs,    \* the reports directory: the state of the named report file
  op,    \* the operation that has run and not yet returned, "none" when idle
  args,  \* the arguments it was called with
  res    \* what it did: the exception that escaped or the value returned,
         \* the transport calls made, how the transport ended ("ok",
         \* "failed", "none" when not tried) and the message delivered

vars == <<fs, op, args, res>>

NoArgs ==
  [recipient |-> <<>>, subject |-> <<>>, body |-> <<>>, smtp_user |-> <<>>,
   smtp_password |-> <<>>, custom_message |-> NoneValue]

Init ==
  /\ fs \in FileStates(MaxMailParas)
  /\ op = "none"
  /\ args = NoArgs
  /\ res = Result0

ReadTextReport ==
  \E decodes \in BOOLEAN :
    LET r == read_text_report(fs, decodes)
    IN  /\ op = "none"
        /\ op' = "read_text_report"
        /\ args' = NoArgs
        /\ res' = [Result0 EXCEPT !.exc = r.exc, !.ret = r.ret]
        /\ UNCHANGED fs

ReadDocxReport ==
  LET r == read_docx_report(fs)
  IN  /\ op = "none"
      /\ op' = "read_docx_report"
      /\ args' = NoArgs
      /\ res' = [Result0 EXCEPT !.exc = r.exc, !.ret = r.ret]
      /\ UNCHANGED fs

ProduceReportSummary ==
  LET r == produce_report_summary(fs)
  IN  /\ op = "none"
      /\ op' = "produce_report_summary"
      /\ args' = NoArgs
      /\ res' = [Result0 EXCEPT !.exc = r.exc, !.ret = r.ret, !.captured = r.captured,
                                !.brk = r.brk, !.fallback = r.fallback]
      /\ UNCHANGED fs

ExtractDefectInsights ==
  LET r == extract_defect_insights(fs)
  IN  /\ op = "none"
      /\ op' = "extract_defect_insights"
      /\ args' = NoArgs
      /\ res' = [Result0 EXCEPT !.exc = r.exc, !.total = r.total, !.counts = r.counts]
      /\ UNCHANGED fs

ExtractHighCriticalMediumCounts ==
  LET r == extract_high_critical_medium_counts(fs)
  IN  /\ op = "none"
      /\ op' = "extract_high_critical_medium_counts"
      /\ args' = NoArgs
      /\ res' = [Result0 EXCEPT !.exc = r.exc, !.counts = r.counts]
      /\ UNCHANGED fs

SendReportSummaryEmail ==
  \E recipient \in Recipients, smtp_user \in Users, smtp_password \in Passwords,
     custom_message \in CustomMessages, failAt \in FailPoints :
    /\ op = "none"
    /\ op' = "send_report_summary_email"
    /\ args' = [NoArgs EXCEPT !.recipient = recipient, !.smtp_user = smtp_user,
                              !.smtp_password = smtp_password,
                              !.custom_message = custom_message]
    /\ res' = send_report_summary_email(fs, recipient, smtp_user, smtp_password,
                                        custom_message, failAt)
    /\ UNCHANGED fs

SendMail ==
  \E recipient \in Recipients, subject \in Subjects, body \in Bodies,
     smtp_user \in Users, smtp_password \in Passwords, failAt \in FailPoints :
    /\ op = "none"
    /\ op' = "sendmail"
    /\ args' = [NoArgs EXCEPT !.recipient = recipient, !.subject = subject,
                              !.body = body, !.smtp_user = smtp_user,
                              !.smtp_password = smtp_password]
    /\ res' = sendmail(recipient, subject, body, smtp_user, smtp_password, failAt)
    /\ UNCHANGED fs

\* The call returns to its caller: the server is synchronous and
\* single-threaded, and takes the next call when this one has returned.
Respond ==
  /\ op # "none"
  /\ op' = "none"
  /\ args' = NoArgs
  /\ res' = Result0
  /\ UNCHANGED fs

\* Every tool and helper of the module, called in any order.
Next ==
  \/ ReadTextReport
  \/ ReadDocxReport
  \/ ProduceReportSummary
  \/ ExtractDefectInsights
  \/ ExtractHighCriticalMediumCounts
  \/ SendReportSummaryEmail
  \/ SendMail
  \/ Respond

Spec == Init /\ [][Next]_vars

\* The operations that read the document, on documents of up to MaxParas
\* paragraphs.
InitExtract ==
  /\ fs \in FileStates(MaxParas)
  /\ op = "none"
  /\ args = NoArgs
  /\ res = Result0

NextExtract ==
  \/ ReadTextReport
  \/ ReadDocxReport
  \/ ProduceReportSummary
  \/ ExtractDefectInsights
  \/ ExtractHighCriticalMediumCounts
  \/ Respond

SpecExtract == InitExtract /\ [][NextExtract]_vars

\* ------------------------------------------------------------ properties
\* What the properties say of a text, stated without the operators of the
\* extractor and the tallies.
Mentions(name, text) ==
  \E k \in 0..(Len(text) - Len(name)) :
    \A i \in 1..Len(name) : lower(text)[k + i] = lower(name)[i]

NamesSection(text) ==
  \E name \in {ExecutiveSummary, SummaryOfFindings, Conclusion, Summary} :
    Mentions(name, text)

IsBlank(text) == \A i \in 1..Len(text) : text[i] \in Whitespace

IsHeading(para) ==
  Len(para.style) >= Len(HeadingPrefix)
    /\ SubSeq(para.style, 1, Len(HeadingPrefix)) = HeadingPrefix

Keys(counts) == { counts[n].k : n \in 1..Len(counts) }

RECURSIVE SumValues(_)
SumValues(counts) ==
  IF counts = <<>> THEN 0 ELSE Head(counts).v + SumValues(Tail(counts))

RECURSIVE FirstNonBlank(_, _)
FirstNonBlank(paragraphs, n) ==
  IF n = 0 \/ paragraphs = <<>> THEN <<>>
  ELSE IF IsBlank(Head(paragraphs).text) THEN FirstNonBlank(Tail(paragraphs), n)
  ELSE <<Head(paragraphs).text>> \o FirstNonBlank(Tail(paragraphs), n - 1)

CapturedPositions == { res.captured[n].pos : n \in 1..Len(res.captured) }

CredentialsGiven == args.smtp_user # <<>> /\ args.smtp_password # <<>>

\* C1: each tally returns a mapping whose keys are exactly its tier set, once
\* each, every value an integer from 0 to the number of paragraphs, whether
\* the document loaded or not.
C1_TallyShape ==
  /\ op = "extract_defect_insights" =>
       /\ res.exc = "none"
       /\ Len(res.counts) = 4
       /\ Keys(res.counts) = {Critical, Medium, Low, Informational}
       /\ \A n \in 1..Len(res.counts) : res.counts[n].v \in 0..Len(fs.paragraphs)
  /\ op = "extract_high_critical_medium_counts" =>
       /\ res.exc = "none"
       /\ Len(res.counts) = 3
       /\ Keys(res.counts) = {Critical, High, Medium}
       /\ \A n \in 1..Len(res.counts) : res.counts[n].v \in 0..Len(fs.paragraphs)

\* A 3-tier tally of a document in which every paragraph mentions one tier
\* and none mentions another.
C1_Witness ==
  /\ op = "extract_high_critical_medium_counts"
  /\ Len(fs.paragraphs) >= 2
  /\ \E n \in 1..Len(res.counts) : res.counts[n].v = Len(fs.paragraphs)
  /\ \E n \in 1..Len(res.counts) : res.counts[n].v = 0

\* C2: with an empty relay user or an empty relay password both senders
\* return the rejection and make no transport call.
C2_RejectsBeforeTransport ==
  (op \in {"send_report_summary_email", "sendmail"} /\ ~CredentialsGiven) =>
    /\ res.exc = "none"
    /\ res.ret = RejectMsg
    /\ res.calls = <<>>
    /\ res.sent = <<>>

\* sendmail called with a user and no password.
C2_Witness ==
  /\ op = "sendmail"
  /\ args.smtp_user # <<>>
  /\ args.smtp_password = <<>>
  /\ res.ret = RejectMsg

\* C3, as claimed: once a paragraph has been captured, the next paragraph
\* with a heading style ends the scan, so that nothing at or after it is in
\* the summary, also when that heading names a summary section.
C3_AnyHeadingEndsScan ==
  (op = "produce_report_summary" /\ fs.kind = "docx") =>
    \A h \in 1..Len(fs.paragraphs) :
      (IsHeading(fs.paragraphs[h]) /\ \E p \in CapturedPositions : p < h) =>
        \A p \in CapturedPositions : p < h

\* C3, amended: once a paragraph has been captured, the next paragraph with
\* a heading style whose text names no summary section ends the scan: the
\* loop breaks there and the summary holds nothing from it or from any
\* paragraph after it.
C3_PlainHeadingEndsScan ==
  (op = "produce_report_summary" /\ fs.kind = "docx") =>
    /\ ~res.fallback => res.ret = join(NL, texts(res.captured))
    /\ \A h \in 1..Len(fs.paragraphs) :
         ( /\ IsHeading(fs.paragraphs[h])
           /\ ~NamesSection(fs.paragraphs[h].text)
           /\ \E p \in CapturedPositions : p < h ) =>
           /\ \A p \in CapturedPositions : p < h
           /\ res.brk \in 1..h

\* The scan broke at a heading with paragraphs still after it.
C3_Witness ==
  /\ op = "produce_report_summary"
  /\ res.captured # <<>>
  /\ res.brk # 0
  /\ res.brk < Len(fs.paragraphs)
  /\ ~IsBlank(fs.paragraphs[Len(fs.paragraphs)].text)

\* C4: when no paragraph names a summary section, the result is the marker
\* followed by the first min(3, k) non-blank paragraph texts, in order,
\* joined by newlines.
C4_FallbackPreview ==
  ( /\ op = "produce_report_summary"
    /\ fs.kind = "docx"
    /\ \A i \in 1..Len(fs.paragraphs) : ~NamesSection(fs.paragraphs[i].text) ) =>
    /\ res.exc = "none"
    /\ res.ret = NoSummaryMarker \o join(NL, FirstNonBlank(fs.paragraphs, 3))

\* A document with no summary section: a blank paragraph, then three that
\* are not blank.
C4_Witness ==
  /\ op = "produce_report_summary"
  /\ fs.kind = "docx"
  /\ Len(fs.paragraphs) = 4
  /\ IsBlank(fs.paragraphs[1].text)
  /\ \A i \in 2..4 : ~IsBlank(fs.paragraphs[i].text)
  /\ \A i \in 1..4 : ~NamesSection(fs.paragraphs[i].text)
  /\ res.fallback

\* C5: no operation lets a failure escape: each ends by returning a string.
C5_NeverRaises == res.exc = "none"

\* C5, what does escape: only the ValueError of a mail sender building a
\* message, with credentials given, around a recipient that holds a line
\* break.
C5_OnlyHeaderFaultEscapes ==
  res.exc # "none" =>
    /\ res.exc = "ValueError"
    /\ op \in {"send_report_summary_email", "sendmail"}
    /\ CredentialsGiven
    /\ \E i \in 1..Len(args.recipient) : args.recipient[i] \in {"\n", "\r"}
    /\ res.calls = <<>>

\* C6: the total of the 4-tier tally is the sum of its four counts.
C6_TotalIsSum ==
  op = "extract_defect_insights" =>
    /\ Len(res.counts) = 4
    /\ res.total = SumValues(res.counts)

\* A 4-tier tally with two tiers mentioned and a total of three or more.
C6_Witness ==
  /\ op = "extract_defect_insights"
  /\ res.total >= 3
  /\ Cardinality({ n \in 1..Len(res.counts) : res.counts[n].v > 0 }) >= 2

\* C7: a captured section holds no paragraph whose text names a summary
\* section: the summary is the join of the captured texts, each the text of
\* the paragraph at its position, and none of those names a section.
C7_NoSectionNameCaptured ==
  (op = "produce_report_summary" /\ fs.kind = "docx" /\ ~res.fallback) =>
    /\ res.captured # <<>>
    /\ res.ret = join(NL, texts(res.captured))
    /\ \A n \in 1..Len(res.captured) :
         /\ res.captured[n].pos \in 1..Len(fs.paragraphs)
         /\ res.captured[n].text = fs.paragraphs[res.captured[n].pos].text
         /\ ~NamesSection(res.captured[n].text)

\* A paragraph that names a section lies between two captured paragraphs.
C7_Witness ==
  /\ op = "produce_report_summary"
  /\ \E i \in 1..Len(fs.paragraphs) :
       /\ NamesSection(fs.paragraphs[i].text)
       /\ \E p \in CapturedPositions : p < i
       /\ \E p \in CapturedPositions : p > i

\* C8: when the document does not load, the 4-tier tally returns total 0 and
\* its four tiers at 0, the 3-tier tally its three tiers at 0, and neither
\* raises.
C8_LoadFailureIsZero ==
  fs.kind # "docx" =>
    /\ op = "extract_defect_insights" =>
         /\ res.exc = "none"
         /\ res.total = 0
         /\ res.counts = << [k |-> Critical, v |-> 0], [k |-> Medium, v |-> 0],
                            [k |-> Low, v |-> 0], [k |-> Informational, v |-> 0] >>
    /\ op = "extract_high_critical_medium_counts" =>
         /\ res.exc = "none"
         /\ res.counts = << [k |-> Critical, v |-> 0], [k |-> High, v |-> 0],
                            [k |-> Medium, v |-> 0] >>

\* The 4-tier tally of a file that is no document.
C8_Witness ==
  /\ fs.kind = "corrupt"
  /\ op = "extract_defect_insights"
  /\ res.counts # <<>>

\* C9: each count is the number of paragraphs whose text mentions the tier,
\* whatever the case and however often.
C9_CountsParagraphs ==
  ( /\ op \in {"extract_defect_insights", "extract_high_critical_medium_counts"}
    /\ fs.kind = "docx" ) =>
    \A n \in 1..Len(res.counts) :
      res.counts[n].v =
        Cardinality({ i \in 1..Len(fs.paragraphs) :
                        Mentions(res.counts[n].k, fs.paragraphs[i].text) })

\* A paragraph mentions Critical twice and another mentions medium in lower
\* case and Low inside a longer word; each counts once.
C9_Witness ==
  /\ op = "extract_defect_insights"
  /\ Len(fs.paragraphs) = 2
  /\ fs.paragraphs[1].text = TextCrit
  /\ fs.paragraphs[2].text = TextBelow
  /\ res.total = 3

\* The string a failed load puts in the summary position.
LoadErrorString ==
  IF fs.kind = "missing" THEN NotFoundHead \o ReportName \o NotFoundTail
  ELSE ErrorPrefix \o DecodeMsg

\* C10: with credentials given, a document that does not load does not stop
\* send_report_summary_email: it composes the body around the load error,
\* total 0 and four zero counts, attempts the transport, and returns the
\* success string when the send succeeds.
C10_LoadFailureStillSends ==
  (op = "send_report_summary_email" /\ CredentialsGiven /\ fs.kind # "docx") =>
    /\ res.exc = "none"
    /\ res.calls # <<>>
    /\ res.summary = LoadErrorString
    /\ res.total = 0
    /\ Keys(res.counts) = {Critical, Medium, Low, Informational}
    /\ \A n \in 1..Len(res.counts) : res.counts[n].v = 0
    /\ res.transport \in {"ok", "failed"}
    /\ res.transport = "ok" => res.ret = SentHead \o args.recipient \o SentTail

\* C10, for a recipient without a line break: the statement of C10 holds.
C10_ValidRecipientCase ==
  ( /\ op = "send_report_summary_email" /\ CredentialsGiven /\ fs.kind # "docx"
    /\ \A i \in 1..Len(args.recipient) : args.recipient[i] \notin {"\n", "\r"} ) =>
    /\ res.exc = "none"
    /\ res.calls # <<>>
    /\ res.summary = LoadErrorString
    /\ res.body = compose(LoadErrorString, 0,
                          << [k |-> Critical, v |-> 0], [k |-> Medium, v |-> 0],
                             [k |-> Low, v |-> 0], [k |-> Informational, v |-> 0] >>,
                          args.custom_message)
    /\ res.transport \in {"ok", "failed"}
    /\ res.transport = "ok" => res.ret = SentHead \o args.recipient \o SentTail

====
